---------------------------- MODULE Spec2Model ----------------------------
(***************************************************************************)
(* Model of lib/datastore/opentsdb.js: the OpenTSDB client of the IPM web  *)
(* application.  The module-level state is the shared socket `opentsdb`    *)
(* and `localConfig`; the operations are connect, addTimeSeries and the    *)
(* HTTP queries (queryRange, getTimeSeriesRange, getLatestTimeSeries).     *)
(*                                                                         *)
(* Five specifications are given:                                          *)
(*   Spec       the socket side: connect, addTimeSeries, the reactions to  *)
(*              socket events, and the store the put lines reach;          *)
(*   SpecQuery  the HTTP completion handlers applied to every response of  *)
(*              a bounded set of (err, res) pairs;                         *)
(*   SpecUri    the queries made with every filter of a bounded set, for   *)
(*              the URIs they request;                                     *)
(*   SpecHttp   the http_test sessions (010-get-homepage and               *)
(*              011-get-forgotten-password) against the pages they test.   *)
(*   SpecPg     clientQuery of lib/datastore/postgres.js applied to every  *)
(*              completion of a bounded set of errors and results.         *)
(***************************************************************************)
EXTENDS Integers, Sequences, FiniteSets, TLC

(***************************************************************************)
(* Bounds of the model.                                                    *)
(***************************************************************************)
\* Number of addTimeSeries calls made during a run.
MaxCalls == 2
\* Largest number of series in a response body drawn for SpecQuery.
MaxSeries == 2
\* Number of put lines a socket buffers before write returns false.
HighWaterMark == 1
\* Number of requests a browser session makes outside the tests.
MaxRequests == 3
\* The number of clientQuery calls.
MaxQueries == 2

(***************************************************************************)
(* Strings of decimal digits: the keys of a `dps` object.  A string is a   *)
(* sequence of digits; its characters compare as their code units do.      *)
(***************************************************************************)
RECURSIVE NumberToString(_)
\* Number.prototype.toString for a non-negative integer: the decimal digits.
NumberToString(n) ==
    IF n < 10 THEN <<n>> ELSE Append(NumberToString(n \div 10), n % 10)

RECURSIVE parseInt(_)
\* parseInt of a string of decimal digits.
parseInt(key) ==
    IF Len(key) = 0 THEN 0
    ELSE 10 * parseInt(SubSeq(key, 1, Len(key) - 1)) + key[Len(key)]

RECURSIVE StringLess(_, _)
\* The order Array.prototype.sort() uses without a comparator: the elements
\* are compared as strings, code unit by code unit, a proper prefix first.
StringLess(a, b) ==
    IF Len(a) = 0 THEN Len(b) > 0
    ELSE IF Len(b) = 0 THEN FALSE
    ELSE IF a[1] # b[1] THEN a[1] < b[1]
    ELSE StringLess(Tail(a), Tail(b))

RECURSIVE SortStrings(_)
\* Object.keys(dps).sort(): the keys in the default (string) order.
SortStrings(keys) ==
    IF keys = {} THEN <<>>
    ELSE LET first == CHOOSE k \in keys : \A o \in keys \ {k} : StringLess(k, o)
         IN  <<first>> \o SortStrings(keys \ {first})

\* responseToLines: one point per key of dps, in the order of the sorted keys.
responseToLines(dps) ==
    LET keys == SortStrings(DOMAIN dps)
    IN  [i \in 1..Len(keys) |->
            [timestamp |-> parseInt(keys[i]), value |-> dps[keys[i]]]]

(***************************************************************************)
(* HTTP responses as superagent hands them to request.get(uri).end(cb):    *)
(* the pair (err, res).  res.error is false for a 2xx status and an error  *)
(* object carrying the status for 4xx and 5xx.  A message is a sequence of *)
(* fragments, so that indexOf can be computed on it.                       *)
(***************************************************************************)
NoSuchName == "No such name for "

\* String.prototype.indexOf at fragment granularity: the index (from 0) of
\* the first occurrence, -1 when there is none.
indexOf(message, fragment) ==
    IF \E i \in 1..Len(message) : message[i] = fragment
    THEN (CHOOSE i \in 1..Len(message) :
              /\ message[i] = fragment
              /\ \A j \in 1..(i - 1) : message[j] # fragment) - 1
    ELSE 0 - 1

\* The bodies a response can carry.
\*   kind "none"   no body (undefined, null or the empty string): falsy
\*   kind "object" a parsed object without an error field, e.g. {}
\*   kind "error"  {error: {...}}; hasMessage is whether error.message is set
\*   kind "list"   an array of series, each {tags, dps}
Body(kind, hasMessage, message, series) ==
    [kind |-> kind, hasMessage |-> hasMessage, message |-> message, series |-> series]

NoBody == Body("none", FALSE, <<>>, <<>>)
EmptyList == Body("list", FALSE, <<>>, <<>>)

\* res.body is truthy
BodyTruthy(body) == body.kind # "none"

\* res.body && res.body.error && res.body.error.message &&
\* res.body.error.message.indexOf('No such name for ') > -1
BodyNamesNoSuchName(body) ==
    /\ BodyTruthy(body)
    /\ body.kind = "error"
    /\ body.hasMessage
    /\ Len(body.message) > 0
    /\ indexOf(body.message, NoSuchName) > 0 - 1

\* body.length for a body returned by queryRange; -1 stands for undefined.
BodyLength(body) == IF body.kind = "list" THEN Len(body.series) ELSE 0 - 1

\* The response (err, res).  err is "null" or the text of the error; hasRes is
\* whether res is defined; errorSet is whether res.error is an error object.
Response(err, hasRes, status, body) ==
    [err |-> err, hasRes |-> hasRes, status |-> status,
     errorSet |-> hasRes /\ status >= 400, body |-> body]

\* res.error.message, the text superagent gives the error of a 4xx/5xx.
ResErrorMessage(r) == "cannot GET (" \o ToString(r.status) \o ")"

\* res.error.status; -1 stands for undefined (res.error is false).
ResErrorStatus(r) == IF r.errorSet THEN r.status ELSE 0 - 1

\* err || res.error
IsFailure(r) == r.err # "null" \/ r.errorSet

\* err || res.error.message, the argument of new TsdbError(...)
TsdbErrorOf(r) == IF r.err # "null" THEN r.err ELSE ResErrorMessage(r)

(***************************************************************************)
(* The callbacks.  An error is "null" or the text a TsdbError carries.     *)
(***************************************************************************)
\* callback(err, body) of queryRange; hasBody is FALSE for callback(err).
RangeCallback(err, hasBody, body) == [err |-> err, hasBody |-> hasBody, body |-> body]

\* queryRange with the test getLatestTimeSeries makes: a 400 counts only with
\* a 'No such name for ' message.
queryRangeNormalisedNeedsMessage(r) ==
    /\ r.hasRes
    /\ (ResErrorStatus(r) = 400 \/ ResErrorStatus(r) = 500)
    /\ BodyNamesNoSuchName(r.body)

\* queryRange taking every 500 for "no such name".
queryRangeNormalisedAny500(r) ==
    /\ r.hasRes
    /\ (ResErrorStatus(r) = 400 \/ ResErrorStatus(r) = 500)

\* The responses queryRange's completion handler turns into (null, []).
queryRangeNormalised(r) ==
    /\ r.hasRes
    /\ \/ ResErrorStatus(r) = 400
       \/ ResErrorStatus(r) = 500 /\ BodyNamesNoSuchName(r.body)

\* queryRange reporting a successful response without a body as an error.
queryRangeEndNoBodyIsError(r) ==
    IF IsFailure(r)
    THEN IF queryRangeNormalised(r)
         THEN RangeCallback("null", TRUE, EmptyList)
         ELSE RangeCallback(TsdbErrorOf(r), FALSE, NoBody)
    ELSE IF BodyTruthy(r.body)
         THEN RangeCallback("null", TRUE, r.body)
         ELSE RangeCallback("Error: no data", FALSE, NoBody)

\* The completion handler of queryRange's request.
queryRangeEnd(r) ==
    IF IsFailure(r)
    THEN IF queryRangeNormalised(r)
         THEN RangeCallback("null", TRUE, EmptyList)
         ELSE RangeCallback(TsdbErrorOf(r), FALSE, NoBody)
    ELSE IF BodyTruthy(r.body)
         THEN RangeCallback("null", TRUE, r.body)
         ELSE RangeCallback("null", TRUE, EmptyList)

\* callback(err, points) of getTimeSeriesRange and callback(err, point) of
\* getLatestTimeSeries; hasResult is FALSE when the result is undefined.
PointsCallback(err, hasResult, result) ==
    [err |-> err, hasResult |-> hasResult, result |-> result]

\* getTimeSeriesRange never handing the points on.
getTimeSeriesRangeEndNoPoints(cb) == PointsCallback(cb.err, TRUE, <<>>)

\* getTimeSeriesRange converting the first series of any non-empty response.
getTimeSeriesRangeEndFirstSeries(cb) ==
    IF cb.err = "null" /\ BodyLength(cb.body) >= 1
    THEN PointsCallback("null", TRUE, responseToLines(cb.body.series[1].dps))
    ELSE PointsCallback(cb.err, TRUE, <<>>)

\* The callback getTimeSeriesRange hands to queryRange.
getTimeSeriesRangeEnd(cb) ==
    IF cb.err = "null" /\ BodyLength(cb.body) = 1
    THEN PointsCallback("null", TRUE, responseToLines(cb.body.series[1].dps))
    ELSE PointsCallback(cb.err, TRUE, <<>>)

\* The completion handler of getLatestTimeSeries's request.
getLatestNormalised(r) ==
    /\ r.hasRes
    /\ (ResErrorStatus(r) = 400 \/ ResErrorStatus(r) = 500)
    /\ BodyNamesNoSuchName(r.body)


\* A timestamp in milliseconds as /api/query/last gives it, the number
\* 1000 * seconds + millis with 0 <= millis < 1000.
Millis(seconds, millis) == [seconds |-> seconds, millis |-> millis]

\* A JavaScript value that is a String, and one that is a whole Number, each
\* with its decimal digits.
JsString(digits) == [type |-> "string", digits |-> digits]
JsNumber(n) == [type |-> "number", digits |-> NumberToString(n)]

\* The conversion dropping the milliseconds: the digits of the second the
\* point was recorded in.
toFixed0Truncating(ms) == JsString(NumberToString(ms.seconds))

\* Number(ms / 1000).toFixed(0): the digits of the nearest whole number (a
\* half rounds up); toFixed returns a String.
toFixed0OfThousandth(ms) ==
    JsString(NumberToString(ms.seconds + (IF ms.millis >= 500 THEN 1 ELSE 0)))

getLatestEnd(r) ==
    IF IsFailure(r)
    THEN IF getLatestNormalised(r)
         THEN PointsCallback("null", FALSE, <<>>)
         ELSE PointsCallback(TsdbErrorOf(r), FALSE, <<>>)
    ELSE IF BodyTruthy(r.body) /\ BodyLength(r.body) > 0
         THEN LET point == r.body.series[1]
              IN  PointsCallback("null", TRUE,
                      <<[timestamp |-> toFixed0OfThousandth(point.timestamp),
                         value |-> point.value]>>)
         ELSE PointsCallback("null", FALSE, <<>>)

\* getTimeSeriesRangeList converting only the first series of the body.
ByGroupFirstSeries(series) ==
    [v \in {series[i].tags : i \in 1..Len(series) \cap {1}} |->
        responseToLines(series[1].dps)]

\* The mapping the forEach of getTimeSeriesRangeList leaves in retval: each
\* series is stored under its value of the group tag, a later series of the
\* same value replacing an earlier one.
ByGroup(series) ==
    [v \in {series[i].tags : i \in 1..Len(series)} |->
        LET last == CHOOSE i \in 1..Len(series) :
                        /\ series[i].tags = v
                        /\ \A j \in (i + 1)..Len(series) : series[j].tags # v
        IN  responseToLines(series[last].dps)]

\* body.forEach is not a function: the body queryRange passed on is not an
\* array, and the callback getTimeSeriesRangeList gave to queryRange throws.
getTimeSeriesRangeListThrows(cb) == cb.err = "null" /\ cb.body.kind # "list"

ForEachTypeError == "TypeError: body.forEach is not a function"

\* The callback getTimeSeriesRangeList hands to queryRange, when it returns.
getTimeSeriesRangeListEnd(cb) ==
    IF cb.err = "null"
    THEN PointsCallback("null", TRUE, ByGroup(cb.body.series))
    ELSE PointsCallback(cb.err, TRUE, <<>>)

\* String(err || res.error), the text of the error renameTagValue wraps.
renameErrorOf(r) ==
    IF r.err # "null" THEN r.err ELSE "Error: " \o ResErrorMessage(r)

\* The completion handler of renameTagValue's request.
renameTagValueEnd(r) ==
    IF IsFailure(r)
    THEN PointsCallback(renameErrorOf(r), FALSE, <<>>)
    ELSE PointsCallback("null", FALSE, <<>>)

\* A completion handler issuing its request again after a failure.
ReissueOnFailure(r) == IsFailure(r)

\* Whether a completion handler issues its request again: none does.
Reissue(r) == FALSE

\* What becomes of an exception thrown out of a completion handler, which
\* the HTTP client called: it ends the process as an uncaught exception, or
\* the client catches and drops it, or the client catches it and calls the
\* handler again with it as err.
ThrowOutcomes == {"uncaught", "swallowed", "recalled"}

(***************************************************************************)
(* The responses drawn for SpecQuery.                                      *)
(***************************************************************************)
Timestamps == {20, 100}
Values == {3, 5}
GroupValues == {"a", "b"}
KeyStrings == {NumberToString(t) : t \in Timestamps}

\* Every point map over the keys: string timestamp -> value.
DpsSet == UNION {[keys -> Values] : keys \in SUBSET KeyStrings}
SeriesSet == [tags : GroupValues, dps : DpsSet]
SeriesLists == UNION {[1..n -> SeriesSet] : n \in 0..MaxSeries}

\* Elements of the body of /api/query/last: timestamps in milliseconds.
LastPoints ==
    [timestamp : {Millis(1, 499), Millis(1, 500), Millis(20, 0),
                  Millis(1700000000, 0)},
     value : Values]
LastLists == UNION {[1..n -> LastPoints] : n \in 0..1}

Messages ==
    { <<>>,
      <<"Bad Request">>,
      <<NoSuchName, "'metrics': 'power'">>,
      <<"net.opentsdb.uid.NoSuchUniqueName: ", NoSuchName, "'tagv': 'hpc1'">> }

FailureBodies ==
    {NoBody, Body("object", FALSE, <<>>, <<>>), Body("error", FALSE, <<>>, <<>>)}
    \cup {Body("error", TRUE, m, <<>>) : m \in Messages}

\* A 4xx or 5xx answer; superagent reports it in res.error, and (depending on
\* its version) in err as well.
HttpErrs == {"null", "Error: Unsuccessful HTTP response"}

HttpFailures ==
    {Response(e, TRUE, st, b) :
        e \in HttpErrs,
        st \in {400, 404, 500, 503}, b \in FailureBodies}

\* No answer at all, or an answer that could not be parsed.
TransportFailures ==
    {Response("Error: connect ECONNREFUSED", FALSE, 0, NoBody),
     Response("Error: Parser is unable to parse the response", TRUE, 200, NoBody)}

Successes(lists) ==
    {Response("null", TRUE, 200, b) :
        b \in {NoBody, Body("object", FALSE, <<>>, <<>>)}
              \cup {Body("list", FALSE, <<>>, l) : l \in lists}}

RangeResponses == HttpFailures \cup TransportFailures \cup Successes(SeriesLists)
RenameResponses == HttpFailures \cup TransportFailures \cup Successes({})

\* The responses drawn for SpecUri: no answer, an unparsable one, and the
\* successes without a series.
FewResponses == TransportFailures \cup Successes({<<>>})
LatestResponses == HttpFailures \cup TransportFailures \cup Successes(LastLists)

NoResponse == Response("null", FALSE, 0, NoBody)
NoCallback == PointsCallback("null", FALSE, <<>>)


(***************************************************************************)
(* The state.                                                              *)
(***************************************************************************)
VARIABLES
    localConfig,    \* "undefined" | "set": the module's copy of the configuration
    opentsdb,       \* the shared socket: 0 (undefined) or an index of sockets
    sockets,        \* every socket net.createConnection returned, in order
    calls,          \* every addTimeSeries call made, in order
    process,        \* "running" | "exit1" (process.exit(1)) | "uncaught"
    stats,          \* the statsd counters the module increments
    connectCalled,  \* whether the application has called connect
    appCallback,    \* how often the application's connect callback was invoked
    store,          \* the points the put lines delivered to OpenTSDB
    qpc,            \* the query: "idle" | "sent" | "done"
    qop,            \* the query's operation
    qgiven,         \* the query's metric and filter as the caller gave them
    qfilter,        \* the caller's filter object after the call
    quri,           \* the URI of the query's GET
    qresp,          \* the response (err, res) the query's handler received
    qcb,            \* the arguments of the caller's callback
    qcbCount,       \* how often the caller's callback was invoked
    httpGets,       \* how many HTTP GETs the query issued
    session,        \* the browser session's user: "anonymous" or the user name
    history,        \* the requests of the session and the answers to them
    test,           \* "none" | "free" | "homepage" | "forgotten": who drives it
    failed,         \* whether an expectation of the test has failed
    saved,          \* the page text the test keeps in not_logged_in
    queries,        \* every clientQuery call made, in order
    pgStats         \* the statsd counters lib/datastore/postgres.js increments

socketVars == <<localConfig, opentsdb, sockets, calls, process, stats,
                connectCalled, appCallback, store>>
queryVars == <<qpc, qop, qgiven, qfilter, quri, qresp, qcb, qcbCount, httpGets>>
httpVars == <<session, history, test, failed, saved>>
pgVars == <<queries, pgStats>>
vars == <<localConfig, opentsdb, sockets, calls, process, stats, connectCalled,
          appCallback, store, qpc, qop, qgiven, qfilter, quri, qresp, qcb,
          qcbCount, httpGets, session, history, test, failed, saved, queries,
          pgStats>>

\* The metrics (series, timestamp in seconds, value) the callers write.
Metrics ==
    { [series |-> "power", timestamp |-> 20, value |-> 3],
      [series |-> "power", timestamp |-> 100, value |-> 5] }

\* A property of a JavaScript object: its name, its value (as text), the
\* typeof of its value, and whether it is an own property (for-in also visits
\* the inherited ones).
Prop(field, value, type, own) ==
    [field |-> field, value |-> value, type |-> type, own |-> own]

\* filter.tags: an object, its properties in the order for-in visits them
\* (the own ones first), or undefined.
Tags(props) == [defined |-> TRUE, props |-> props]
UndefinedTags == [defined |-> FALSE, props |-> <<>>]

\* filter.qualifiers: an array of strings, or undefined.
Qualifiers(items) == [defined |-> TRUE, items |-> items]
UndefinedQualifiers == [defined |-> FALSE, items |-> <<>>]

\* The arguments (metric, filter) of a range query: the filter's start and
\* end are moments, given in milliseconds since the epoch.
Filter(metric, start, end, aggregation, qualifiers, tags) ==
    [metric |-> metric, start |-> start, end |-> end,
     aggregation |-> aggregation, qualifiers |-> qualifiers, tags |-> tags]

\* The arguments of the range queries made on the points the callers write:
\* the metric and the time range, no qualifiers and no tags.
RangeFilters ==
    [metric : {"power", "volts"}, start : {0, 50000}, end : {50400, 200000},
     aggregation : {"avg"}, qualifiers : {Qualifiers(<<>>)}, tags : {Tags(<<>>)}]

NoFilter == Filter("", 0, 0, "", UndefinedQualifiers, UndefinedTags)

\* The tag getTimeSeriesRangeList is asked to group by.
GroupTag == "hpc"

\* The tags objects of the filters drawn for SpecQuery.
TagObjects ==
    { Tags(<<>>),
      Tags(<<Prop("hpc", "a", "string", TRUE)>>),
      Tags(<<Prop("hpc", "", "string", TRUE), Prop("site", "s1", "string", TRUE)>>),
      Tags(<<Prop("site", "s1", "string", TRUE), Prop("hpc", "b", "string", TRUE)>>),
      Tags(<<Prop("site", "s1", "string", TRUE), Prop("phase", "2", "number", TRUE),
             Prop("label", "x", "string", FALSE)>>),
      Tags(<<Prop("phase", "2", "number", TRUE)>>) }

\* The filters drawn for SpecQuery: a time range whose end is not a whole
\* second, every tags object, and the forms qualifiers can take.
QueryFilters ==
    {Filter("power", 50000, 50400, "avg", Qualifiers(<<>>), t) : t \in TagObjects}
    \cup {Filter("power", 0, 200000, "max", q, Tags(<<Prop("hpc", "a", "string", TRUE)>>)) :
             q \in {UndefinedQualifiers, Qualifiers(<<"rate">>),
                     Qualifiers(<<"1h-avg", "rate">>)}}

\* The filters getTimeSeriesRangeList is called with: those, and one without
\* tags.
ListFilters ==
    QueryFilters
    \cup {Filter("power", 50000, 50400, "sum", Qualifiers(<<>>), UndefinedTags)}

\* The filters the queries of SpecQuery are made with: the ones without a
\* tag.
UntaggedFilters ==
    {f \in ListFilters : ~f.tags.defined \/ Len(f.tags.props) = 0}

\* A socket as net.createConnection returns it.  `established` is whether
\* connectionEstablished has run for it (which swaps the 'error' listener);
\* `pending` are the calls whose write is queued on it.
NewSocket(owner) ==
    [state |-> "connecting", owner |-> owner, established |-> FALSE,
     pending |-> <<>>]

\* An addTimeSeries call.  `opened` is the socket the call's connect created,
\* `socket` the socket its put line was written on, `delayed` whether write
\* returned false, `writeCb` the completion callback given to write,
\* `writeFailed` whether the transport failed the write, `data` the lines
\* handed to write, `cb` the argument of the caller's callback.
NewCall(metric) ==
    [metric |-> metric, pc |-> "called", opened |-> 0, socket |-> 0,
     delayed |-> FALSE, writeCb |-> "none", writeFailed |-> FALSE,
     data |-> <<>>, cb |-> "none", cbCount |-> 0]

\* socket.writable
Writable(s) == sockets[s].state = "open"

SocketIds == 1..Len(sockets)
CallIds == 1..Len(calls)

Running == process = "running"

Init ==
    /\ localConfig = "undefined"
    /\ opentsdb = 0
    /\ sockets = <<>>
    /\ calls = <<>>
    /\ process = "running"
    /\ stats = [failure |-> 0, delayed |-> 0]
    /\ connectCalled = FALSE
    /\ appCallback = 0
    /\ store = {}
    /\ qpc = "idle"
    /\ qop = "none"
    /\ qgiven = NoFilter
    /\ qfilter = NoFilter
    /\ quri = <<>>
    /\ qresp = NoResponse
    /\ qcb = NoCallback
    /\ qcbCount = 0
    /\ httpGets = 0
    /\ session = "anonymous"
    /\ history = <<>>
    /\ test = "none"
    /\ failed = FALSE
    /\ saved = ""
    /\ queries = <<>>
    /\ pgStats = [failure |-> 0, queryFailure |-> 0]


(***************************************************************************)
(* connect and addTimeSeries.                                              *)
(***************************************************************************)
\* connectionError without its process.exit(1).
ProcessAfterConnectionErrorLogged == "running"

\* connectionError ends in process.exit(1).
ProcessAfterConnectionError == "exit1"

\* connectionError(err): the failure is counted and the process exits; the
\* callback given to connect is not invoked.
connectionError ==
    /\ stats' = [stats EXCEPT !.failure = @ + 1]
    /\ process' = ProcessAfterConnectionError

\* connect(nconf, callback) called for `owner` (0: the application, c: the
\* addTimeSeries call c); cs is `calls` with the call registered.  With no
\* configuration localConfig.get throws inside the try block and the catch
\* clause calls connectionError.
connect(nconf, owner, cs) ==
    /\ localConfig' = nconf
    /\ IF nconf = "undefined"
       THEN /\ connectionError
            /\ sockets' = sockets
            /\ calls' = cs
       ELSE /\ sockets' = Append(sockets, NewSocket(owner))
            /\ calls' = IF owner = 0 THEN cs
                        ELSE [cs EXCEPT ![owner].opened = Len(sockets) + 1,
                                        ![owner].pc = "connecting"]
            /\ UNCHANGED <<stats, process>>

\* 'put ' + metric.toString() + '\n': the line as it travels, the timestamp
\* in decimal digits.
PutLine(metric) ==
    [series |-> metric.series, timestamp |-> NumberToString(metric.timestamp),
     value |-> metric.value]

\* sendTimeSeries writing the call's line twice.
WriteDataTwice(metric) == <<PutLine(metric), PutLine(metric)>>

\* The data sendTimeSeries hands to opentsdb.write, as a sequence of lines:
\* the one put line of the call's metric.
WriteData(metric) == <<PutLine(metric)>>

\* The completion callback sendTimeSeries gives to opentsdb.write: the
\* caller's callback.
PutWriteCallback == "callback"

\* socket.write returns false when the socket has buffered HighWaterMark
\* lines or more.
WriteReturnsFalse(socket) == Len(socket.pending) >= HighWaterMark

\* sendTimeSeries reporting a write that returned false to the caller.
sendTimeSeriesFailingDelayed(c, err, cs, ss, shared) ==
    IF err # "null" \/ shared = 0
    THEN /\ calls' = cs
         /\ sockets' = ss
         /\ UNCHANGED <<stats, process>>
    ELSE /\ sockets' = [ss EXCEPT ![shared].pending = Append(@, c)]
         /\ calls' = IF WriteReturnsFalse(ss[shared])
                     THEN [cs EXCEPT ![c].socket = shared, ![c].pc = "writing",
                                     ![c].writeCb = PutWriteCallback,
                                     ![c].data = WriteData(cs[c].metric),
                                     ![c].delayed = TRUE,
                                     ![c].cb = "Error: write delayed",
                                     ![c].cbCount = @ + 1]
                     ELSE [cs EXCEPT ![c].socket = shared, ![c].pc = "writing",
                                     ![c].writeCb = PutWriteCallback,
                                     ![c].data = WriteData(cs[c].metric)]
         /\ stats' = [stats EXCEPT !.delayed =
                         @ + (IF WriteReturnsFalse(ss[shared]) THEN 1 ELSE 0)]
         /\ UNCHANGED process

\* sendTimeSeries(err) of call c; ss and cs are the sockets and calls at the
\* time, shared is opentsdb.
sendTimeSeries(c, err, cs, ss, shared) ==
    IF err # "null"
    THEN /\ calls' = [cs EXCEPT ![c].cb = err, ![c].cbCount = @ + 1, ![c].pc = "done"]
         /\ sockets' = ss
         /\ UNCHANGED <<stats, process>>
    ELSE IF shared = 0
    THEN \* opentsdb.write on undefined throws a TypeError
         /\ process' = "uncaught"
         /\ calls' = cs
         /\ sockets' = ss
         /\ UNCHANGED stats
    ELSE /\ sockets' = [ss EXCEPT ![shared].pending = Append(@, c)]
         /\ calls' = [cs EXCEPT ![c].socket = shared, ![c].pc = "writing",
                                ![c].writeCb = PutWriteCallback,
                                ![c].data = WriteData(cs[c].metric),
                                ![c].delayed = WriteReturnsFalse(ss[shared])]
         /\ stats' = [stats EXCEPT !.delayed =
                         @ + (IF WriteReturnsFalse(ss[shared]) THEN 1 ELSE 0)]
         /\ UNCHANGED process

\* addTimeSeries testing only !opentsdb.
NeedsReconnectIgnoringWritable == opentsdb = 0

\* !opentsdb || !opentsdb.writable
NeedsReconnect == opentsdb = 0 \/ ~Writable(opentsdb)

\* The application calls connect(nconf, callback).
Connect ==
    /\ Running
    /\ ~connectCalled
    /\ connectCalled' = TRUE
    /\ connect("set", 0, calls)
    /\ UNCHANGED <<opentsdb, appCallback, store>>
    /\ UNCHANGED queryVars
    /\ UNCHANGED httpVars
    /\ UNCHANGED pgVars

\* addTimeSeries(metric, callback)
AddTimeSeries(metric) ==
    /\ Running
    /\ Len(calls) < MaxCalls
    /\ LET c == Len(calls) + 1
           cs == Append(calls, NewCall(metric))
       IN  IF NeedsReconnect
           THEN connect(localConfig, c, cs)
           ELSE /\ sendTimeSeries(c, "null", cs, sockets, opentsdb)
                /\ UNCHANGED localConfig
    /\ UNCHANGED <<opentsdb, connectCalled, appCallback, store>>
    /\ UNCHANGED queryVars
    /\ UNCHANGED httpVars
    /\ UNCHANGED pgVars

\* opentsdb = socket in connectionEstablished
SharedAfterEstablished(s) == s

\* connectionEstablished of socket s: the socket becomes the shared one, the
\* 'error' listener is swapped, and the callback given to connect runs.
ConnectionEstablished(s) ==
    /\ Running
    /\ s \in SocketIds
    /\ sockets[s].state = "connecting"
    /\ LET ss == [sockets EXCEPT ![s].state = "open", ![s].established = TRUE]
           shared == SharedAfterEstablished(s)
           owner == sockets[s].owner
       IN  /\ opentsdb' = shared
           /\ IF owner = 0
              THEN /\ appCallback' = appCallback + 1
                   /\ sockets' = ss
                   /\ UNCHANGED <<calls, stats, process>>
              ELSE /\ sendTimeSeries(owner, "null", calls, ss, shared)
                   /\ UNCHANGED appCallback
    /\ UNCHANGED <<localConfig, connectCalled, store>>
    /\ UNCHANGED queryVars
    /\ UNCHANGED httpVars
    /\ UNCHANGED pgVars

\* The socket emits 'error' while connecting: connectionError.
ConnectionError(s) ==
    /\ Running
    /\ s \in SocketIds
    /\ sockets[s].state = "connecting"
    /\ sockets' = [sockets EXCEPT ![s].state = "failed"]
    /\ connectionError
    /\ UNCHANGED <<localConfig, opentsdb, calls, connectCalled, appCallback, store>>
    /\ UNCHANGED queryVars
    /\ UNCHANGED httpVars
    /\ UNCHANGED pgVars


(***************************************************************************)
(* Socket events after the connection was established.                     *)
(***************************************************************************)
InSeq(x, seq) == \E i \in 1..Len(seq) : seq[i] = x

\* The runtime completes the write of a call: the completion callback given
\* to write, if any, runs with err.
Completed(call, err) ==
    IF call.writeCb = "callback"
    THEN [call EXCEPT !.cb = err, !.cbCount = @ + 1, !.pc = "done"]
    ELSE [call EXCEPT !.pc = "done"]

\* What becomes of the writes still queued on a socket that is destroyed:
\* the runtime either completes their callbacks with an error (flush) or
\* never calls them.
Discard(cs, pend, flush) ==
    [c \in DOMAIN cs |->
        IF InSeq(c, pend)
        THEN IF flush
             THEN Completed(cs[c], "Error: socket destroyed")
             ELSE [cs[c] EXCEPT !.pc = "dropped"]
        ELSE cs[c]]

\* The socket the 'error' listener installed by connectionEstablished
\* destroys: opentsdb.destroy().
ListenerTarget(s) == opentsdb

\* The 'error' listener installed by connectionEstablished, run for an error
\* of socket s: opentsdb.destroy(); opentsdb = undefined.  With opentsdb
\* undefined the call throws a TypeError out of the listener.
errorListener(s, ss, cs, flush) ==
    LET target == ListenerTarget(s)
    IN  IF target = 0
        THEN /\ process' = "uncaught"
             /\ sockets' = ss
             /\ calls' = cs
             /\ UNCHANGED opentsdb
        ELSE /\ sockets' = [ss EXCEPT ![target].state = "destroyed",
                                      ![target].pending = <<>>]
             /\ calls' = Discard(cs, ss[target].pending, flush)
             /\ opentsdb' = 0
             /\ UNCHANGED process

Live(s) == sockets[s].state \in {"open", "ended"}

\* An established socket emits 'error' (the runtime has destroyed it).
SocketError(s, flush) ==
    /\ Running
    /\ s \in SocketIds
    /\ sockets[s].established
    /\ Live(s)
    /\ errorListener(s,
           [sockets EXCEPT ![s].state = "destroyed", ![s].pending = <<>>],
           Discard(calls, sockets[s].pending, flush), flush)
    /\ UNCHANGED <<localConfig, stats, connectCalled, appCallback, store>>
    /\ UNCHANGED queryVars
    /\ UNCHANGED httpVars
    /\ UNCHANGED pgVars

\* The point OpenTSDB stores for a put line.
StoredPoint(line) ==
    [series |-> line.series, timestamp |-> parseInt(line.timestamp),
     value |-> line.value]

\* The oldest queued write of socket s is written out: its lines reach the
\* store and the write's callback (the caller's callback) runs without error.
WriteComplete(s) ==
    /\ Running
    /\ s \in SocketIds
    /\ Live(s)
    /\ Len(sockets[s].pending) > 0
    /\ LET c == Head(sockets[s].pending)
       IN  /\ store' = store \cup {StoredPoint(calls[c].data[i]) :
                                       i \in 1..Len(calls[c].data)}
           /\ calls' = [calls EXCEPT ![c] = Completed(@, "null")]
           /\ sockets' = [sockets EXCEPT ![s].pending = Tail(@)]
    /\ UNCHANGED <<localConfig, opentsdb, process, stats, connectCalled, appCallback>>
    /\ UNCHANGED queryVars
    /\ UNCHANGED httpVars
    /\ UNCHANGED pgVars

\* The oldest queued write of socket s fails: its callback runs with the
\* error, and the socket is destroyed and emits 'error'.
WriteError(s, flush) ==
    /\ Running
    /\ s \in SocketIds
    /\ Live(s)
    /\ Len(sockets[s].pending) > 0
    /\ LET c == Head(sockets[s].pending)
           cs == [calls EXCEPT ![c] = Completed([@ EXCEPT !.writeFailed = TRUE],
                                                "Error: write EPIPE")]
       IN  errorListener(s,
               [sockets EXCEPT ![s].state = "destroyed", ![s].pending = <<>>],
               Discard(cs, Tail(sockets[s].pending), flush), flush)
    /\ UNCHANGED <<localConfig, stats, connectCalled, appCallback, store>>
    /\ UNCHANGED queryVars
    /\ UNCHANGED httpVars
    /\ UNCHANGED pgVars

\* The peer closes the connection: the socket is no longer writable.
SocketEnd(s) ==
    /\ Running
    /\ s \in SocketIds
    /\ sockets[s].state = "open"
    /\ sockets' = [sockets EXCEPT ![s].state = "ended"]
    /\ UNCHANGED <<localConfig, opentsdb, calls, process, stats, connectCalled,
                   appCallback, store>>
    /\ UNCHANGED queryVars
    /\ UNCHANGED httpVars
    /\ UNCHANGED pgVars

\* An ended socket closes without an error.
SocketClose(s, flush) ==
    /\ Running
    /\ s \in SocketIds
    /\ sockets[s].state = "ended"
    /\ sockets' = [sockets EXCEPT ![s].state = "destroyed", ![s].pending = <<>>]
    /\ calls' = Discard(calls, sockets[s].pending, flush)
    /\ UNCHANGED <<localConfig, opentsdb, process, stats, connectCalled,
                   appCallback, store>>
    /\ UNCHANGED queryVars
    /\ UNCHANGED httpVars
    /\ UNCHANGED pgVars

(***************************************************************************)
(* The request URIs.  A URI is a sequence of text fragments, so that what  *)
(* it contains can be looked up; concatenation is \o.                      *)
(***************************************************************************)
RECURSIVE join(_, _)
\* Array.prototype.join
join(items, separator) ==
    IF Len(items) = 0 THEN <<>>
    ELSE IF Len(items) = 1 THEN <<items[1]>>
    ELSE <<items[1], separator>> \o join(Tail(items), separator)

RECURSIVE hashToStringAllTypesFrom(_, _, _)
hashToStringAllTypesFrom(obj, i, retval) ==
    IF i > Len(obj.props) THEN retval
    ELSE LET p == obj.props[i]
         IN  hashToStringAllTypesFrom(obj, i + 1,
                 IF p.own
                 THEN (IF retval # <<>> THEN retval \o <<",">> ELSE retval)
                          \o <<p.field, "=", p.value>>
                 ELSE retval)

\* hashToString without its typeof test.
hashToStringAllTypes(obj) == hashToStringAllTypesFrom(obj, 1, <<>>)

RECURSIVE hashToStringFrom(_, _, _)
\* The for-in loop of hashToString from the i-th property on; retval is the
\* text built so far.
hashToStringFrom(obj, i, retval) ==
    IF i > Len(obj.props) THEN retval
    ELSE LET p == obj.props[i]
         IN  hashToStringFrom(obj, i + 1,
                 IF p.own /\ p.type = "string"
                 THEN (IF retval # <<>> THEN retval \o <<",">> ELSE retval)
                          \o <<p.field, "=", p.value>>
                 ELSE retval)

\* hashToString(obj): "key1=value1,key2=value2"
hashToString(obj) == hashToStringFrom(obj, 1, <<>>)

\* Object.keys(obj).length: the number of own properties.
ObjectKeysLength(obj) == Cardinality({i \in 1..Len(obj.props) : obj.props[i].own})

\* moment#unix(): the whole seconds of a moment.
unix(ms) == ms \div 1000

\* Math.floor and Math.ceil of a whole number.
MathFloor(n) == n
MathCeil(n) == n

\* 'http://' + localConfig.get('opentsdb:host') + ':' +
\* localConfig.get('opentsdb:port')
BaseUri == <<"http://", "opentsdb:host", ":", "opentsdb:port">>

\* The URI queryRange builds for (metric, filter); start, end and metric are
\* what the store reads from it.
queryRangeUri(f) ==
    LET start == MathFloor(unix(f.start))
        end == MathCeil(unix(f.end))
        head == BaseUri \o <<"/api/query?start=", ToString(start),
                             "&end=", ToString(end), "&m=", f.aggregation, ":">>
        qualified == IF f.qualifiers.defined /\ Len(f.qualifiers.items) > 0
                     THEN head \o join(f.qualifiers.items, ":") \o <<":">>
                     ELSE head
        named == qualified \o <<f.metric>>
    IN  [start |-> start, end |-> end, metric |-> f.metric,
         text |-> IF ObjectKeysLength(f.tags) > 0
                  THEN named \o <<"{">> \o hashToString(f.tags) \o <<"}">>
                  ELSE named]

\* The URI getLatestTimeSeries builds for (metric, tags).
getLatestUri(metric, tags) ==
    LET named == BaseUri \o <<"/api/query/last?back_scan=96&timeseries=", metric>>
    IN  IF ObjectKeysLength(tags) > 0
        THEN named \o <<"{">> \o hashToString(tags) \o <<"}">>
        ELSE named

\* The URI renameTagValue builds.
renameUri(oldname, newname) ==
    BaseUri \o <<"/api/uid/rename?tagv=", oldname, "&name=", newname>>

\* obj[field] is defined: an own or an inherited property has the name.
HasProperty(obj, field) ==
    \E i \in 1..Len(obj.props) : obj.props[i].field = field

\* obj[field]: the own property of the name, else the inherited one.
GetProperty(obj, field) ==
    LET named == {i \in 1..Len(obj.props) : obj.props[i].field = field}
        own == {i \in named : obj.props[i].own}
    IN  obj.props[CHOOSE i \in named : own # {} => i \in own]

\* !value, for the values drawn: of these only the empty string is falsy.
Falsy(p) == p.type = "string" /\ p.value = ""

\* obj[field] = value for a string value: an own property keeps its place,
\* a new one comes after the own ones and hides an inherited one.
SetProperty(obj, field, value) ==
    IF \E i \in 1..Len(obj.props) : obj.props[i].field = field /\ obj.props[i].own
    THEN Tags([i \in 1..Len(obj.props) |->
                  IF obj.props[i].field = field /\ obj.props[i].own
                  THEN Prop(field, value, "string", TRUE)
                  ELSE obj.props[i]])
    ELSE Tags(SelectSeq(obj.props, LAMBDA p : p.own)
                  \o <<Prop(field, value, "string", TRUE)>>
                  \o SelectSeq(obj.props, LAMBDA p : ~p.own /\ p.field # field))

\* getTimeSeriesRangeList setting the wildcard whatever the filter holds.
WithGroupTagAlways(f, group) ==
    [f EXCEPT !.tags = SetProperty(IF f.tags.defined THEN f.tags ELSE Tags(<<>>),
                                   group, "*")]

\* getTimeSeriesRangeList replacing the tags object by one that holds only
\* the group tag when the group tag is missing.
WithGroupTagOnly(f, group) ==
    LET tags == IF f.tags.defined THEN f.tags ELSE Tags(<<>>)
    IN  [f EXCEPT !.tags =
            IF ~HasProperty(tags, group) \/ Falsy(GetProperty(tags, group))
            THEN SetProperty(Tags(<<>>), group, "*")
            ELSE tags]

\* The filter after getTimeSeriesRangeList has ensured that the group tag is
\* present: if (!filter.tags) filter.tags = {}; if (!filter.tags[group])
\* filter.tags[group] = '*'.
WithGroupTag(f, group) ==
    LET tags == IF f.tags.defined THEN f.tags ELSE Tags(<<>>)
    IN  [f EXCEPT !.tags =
            IF ~HasProperty(tags, group) \/ Falsy(GetProperty(tags, group))
            THEN SetProperty(tags, group, "*")
            ELSE tags]

(***************************************************************************)
(* The queries.                                                            *)
(***************************************************************************)
\* getTimeSeriesRange(metric, filter, callback): queryRange sends one GET.
GetTimeSeriesRange(f) ==
    /\ Running
    /\ localConfig = "set"
    /\ qpc = "idle"
    /\ qpc' = "sent"
    /\ qop' = "range"
    /\ qgiven' = f
    /\ qfilter' = f
    /\ quri' = queryRangeUri(f).text
    /\ httpGets' = httpGets + 1
    /\ UNCHANGED <<qresp, qcb, qcbCount>>
    /\ UNCHANGED socketVars
    /\ UNCHANGED httpVars
    /\ UNCHANGED pgVars

\* getLatestTimeSeries(metric, tags, callback) sends one GET.
GetLatestTimeSeries(metric, tags) ==
    /\ Running
    /\ localConfig = "set"
    /\ qpc = "idle"
    /\ qpc' = "sent"
    /\ qop' = "latest"
    /\ qgiven' = Filter(metric, 0, 0, "", UndefinedQualifiers, tags)
    /\ qfilter' = qgiven'
    /\ quri' = getLatestUri(metric, tags)
    /\ httpGets' = httpGets + 1
    /\ UNCHANGED <<qresp, qcb, qcbCount>>
    /\ UNCHANGED socketVars
    /\ UNCHANGED httpVars
    /\ UNCHANGED pgVars

\* request.get(uri).end(...) of queryRange completes with r, for
\* getTimeSeriesRange.
RangeResponse(r) ==
    /\ Running
    /\ qpc = "sent"
    /\ qop = "range"
    /\ qresp' = r
    /\ qcb' = getTimeSeriesRangeEnd(queryRangeEnd(r))
    /\ qcbCount' = qcbCount + 1
    /\ qpc' = IF Reissue(r) THEN "sent" ELSE "done"
    /\ httpGets' = httpGets + (IF Reissue(r) THEN 1 ELSE 0)
    /\ UNCHANGED <<qop, qgiven, qfilter, quri>>
    /\ UNCHANGED socketVars
    /\ UNCHANGED httpVars
    /\ UNCHANGED pgVars

\* request.get(uri).end(...) of getLatestTimeSeries completes with r.
LatestResponse(r) ==
    /\ Running
    /\ qpc = "sent"
    /\ qop = "latest"
    /\ qresp' = r
    /\ qcb' = getLatestEnd(r)
    /\ qcbCount' = qcbCount + 1
    /\ qpc' = IF Reissue(r) THEN "sent" ELSE "done"
    /\ httpGets' = httpGets + (IF Reissue(r) THEN 1 ELSE 0)
    /\ UNCHANGED <<qop, qgiven, qfilter, quri>>
    /\ UNCHANGED socketVars
    /\ UNCHANGED httpVars
    /\ UNCHANGED pgVars

\* getTimeSeriesRangeList(metric, filter, group, callback): the group tag is
\* ensured in the caller's filter object, then queryRange sends one GET.
GetTimeSeriesRangeList(f, group) ==
    /\ Running
    /\ localConfig = "set"
    /\ qpc = "idle"
    /\ qpc' = "sent"
    /\ qop' = "list"
    /\ qgiven' = f
    /\ qfilter' = WithGroupTag(f, group)
    /\ quri' = queryRangeUri(WithGroupTag(f, group)).text
    /\ httpGets' = httpGets + 1
    /\ UNCHANGED <<qresp, qcb, qcbCount>>
    /\ UNCHANGED socketVars
    /\ UNCHANGED httpVars
    /\ UNCHANGED pgVars

\* request.get(uri).end(...) of queryRange completes with r, for
\* getTimeSeriesRangeList.  When the callback given to queryRange throws,
\* the exception leaves the completion handler, with the outcome `thrown`.
ListResponse(r, thrown) ==
    /\ Running
    /\ qpc = "sent"
    /\ qop = "list"
    /\ qresp' = r
    /\ IF getTimeSeriesRangeListThrows(queryRangeEnd(r))
       THEN /\ process' = IF thrown = "uncaught" THEN "uncaught" ELSE process
            /\ IF thrown = "recalled"
               THEN \* the handler runs again with err set: queryRange calls
                    \* back with a TsdbError, which is passed on
                    /\ qcb' = getTimeSeriesRangeListEnd(
                                  RangeCallback(ForEachTypeError, FALSE, NoBody))
                    /\ qcbCount' = qcbCount + 1
               ELSE UNCHANGED <<qcb, qcbCount>>
       ELSE /\ qcb' = getTimeSeriesRangeListEnd(queryRangeEnd(r))
            /\ qcbCount' = qcbCount + 1
            /\ UNCHANGED process
    /\ qpc' = IF Reissue(r) THEN "sent" ELSE "done"
    /\ httpGets' = httpGets + (IF Reissue(r) THEN 1 ELSE 0)
    /\ UNCHANGED <<qop, qgiven, qfilter, quri>>
    /\ UNCHANGED <<localConfig, opentsdb, sockets, calls, stats, connectCalled,
                   appCallback, store>>
    /\ UNCHANGED httpVars
    /\ UNCHANGED pgVars

\* renameTagValue(oldname, newname, callback) sends one GET.
RenameTagValue(oldname, newname) ==
    /\ Running
    /\ localConfig = "set"
    /\ qpc = "idle"
    /\ qpc' = "sent"
    /\ qop' = "rename"
    /\ quri' = renameUri(oldname, newname)
    /\ httpGets' = httpGets + 1
    /\ UNCHANGED <<qgiven, qfilter, qresp, qcb, qcbCount>>
    /\ UNCHANGED socketVars
    /\ UNCHANGED httpVars
    /\ UNCHANGED pgVars

\* request.get(uri).end(...) of renameTagValue completes with r.
RenameResponse(r) ==
    /\ Running
    /\ qpc = "sent"
    /\ qop = "rename"
    /\ qresp' = r
    /\ qcb' = renameTagValueEnd(r)
    /\ qcbCount' = qcbCount + 1
    /\ qpc' = IF Reissue(r) THEN "sent" ELSE "done"
    /\ httpGets' = httpGets + (IF Reissue(r) THEN 1 ELSE 0)
    /\ UNCHANGED <<qop, qgiven, qfilter, quri>>
    /\ UNCHANGED socketVars
    /\ UNCHANGED httpVars
    /\ UNCHANGED pgVars

\* What OpenTSDB answers to /api/query?start=..&end=..&m=..: 400 'No such
\* name' for a metric it has never seen, else the one series of the metric
\* with the points of [start, end], or no series when there is no such point.
StoreResponse(uri, err) ==
    LET known == {p \in store : p.series = uri.metric}
        inRange == {p \in known : uri.start <= p.timestamp /\ p.timestamp <= uri.end}
        keys == {NumberToString(p.timestamp) : p \in inRange}
        dps == [k \in keys |->
                   (CHOOSE p \in inRange : NumberToString(p.timestamp) = k).value]
    IN  IF known = {}
        THEN Response(err, TRUE, 400,
                 Body("error", TRUE, <<NoSuchName, "'metrics': '" \o uri.metric \o "'">>, <<>>))
        ELSE IF inRange = {}
        THEN Response("null", TRUE, 200, EmptyList)
        ELSE Response("null", TRUE, 200,
                 Body("list", FALSE, <<>>, <<[tags |-> "a", dps |-> dps]>>))

\* What getTimeSeriesRange calls back with for filter f when OpenTSDB answers
\* from the points it holds in this state.  A query changes nothing of the
\* module's state and the store only grows, so a query issued in an earlier
\* state and answered in this one calls back with the same arguments.
getTimeSeriesRange(f, err) ==
    getTimeSeriesRangeEnd(queryRangeEnd(StoreResponse(queryRangeUri(f), err)))

(***************************************************************************)
(* The http_test sessions.  A test drives one browser session against the  *)
(* application; the pages' handlers answer by the session's user.          *)
(***************************************************************************)
Requests ==
    {"GET /", "GET /home", "POST /login", "POST /logout", "GET /user/forgotten"}

\* The user the tests log in as.
TestUser == "fred"

\* An answer: status, Location header ("" when there is none), Content-Type,
\* the text of the body, and the session's user after it.
Answer(status, location, type, text, user) ==
    [status |-> status, location |-> location, type |-> type, text |-> text,
     user |-> user]

\* A page served with 200, and a redirect.
Page(text, user) == Answer(200, "", "text/html", text, user)
Redirect(location, user) ==
    Answer(302, location, "text/plain", "Found. Redirecting to " \o location, user)

\* What the application answers to a request of a session whose user is
\* `user`.
Serve(user, request) ==
    CASE request = "GET /" ->
             IF user = "anonymous" THEN Page("<html>homepage</html>", user)
             ELSE Redirect("/home", user)
      [] request = "GET /home" ->
             IF user = "anonymous" THEN Redirect("/login", user)
             ELSE Page("<html>home of " \o user \o "</html>", user)
      [] request = "POST /login" -> Redirect("/home", TestUser)
      [] request = "POST /logout" -> Redirect("/", "anonymous")
      [] request = "GET /user/forgotten" ->
             IF user = "anonymous" THEN Page("<html>forgotten password</html>", user)
             ELSE Redirect("/home", user)

\* A step of a test: the request, the status .expect()ed, the Location
\* expected ("" when none is), whether Content-Type text/html is expected,
\* and what the test does with res.text: "none", "long" (length above 1),
\* "save" (not_logged_in = res.text), "differs" (not equal to
\* not_logged_in) or "equals" (equal to not_logged_in).
Step(request, status, location, html, text) ==
    [request |-> request, status |-> status, location |-> location,
     html |-> html, text |-> text]

\* 010-get-homepage expecting /home to be served after the logout.
HomepageTestHomeAfterLogout ==
    << Step("GET /", 200, "", TRUE, "long"),
       Step("GET /", 200, "", TRUE, "save"),
       Step("POST /login", 302, "/home", FALSE, "none"),
       Step("GET /", 302, "/home", FALSE, "none"),
       Step("GET /home", 200, "", TRUE, "differs"),
       Step("POST /logout", 302, "/", FALSE, "none"),
       Step("GET /home", 200, "", TRUE, "none"),
       Step("GET /", 200, "", TRUE, "equals") >>

\* 010-get-homepage: "should respond with 200 OK", then the waterfall of
\* "should be different when logged in".
HomepageTest ==
    << Step("GET /", 200, "", TRUE, "long"),
       Step("GET /", 200, "", TRUE, "save"),
       Step("POST /login", 302, "/home", FALSE, "none"),
       Step("GET /", 302, "/home", FALSE, "none"),
       Step("GET /home", 200, "", TRUE, "differs"),
       Step("POST /logout", 302, "/", FALSE, "none"),
       Step("GET /home", 302, "/login", FALSE, "none"),
       Step("GET /", 200, "", TRUE, "equals") >>

\* 011-get-forgotten-password expecting the page to be served after login.
ForgottenTestServedAfterLogin ==
    << Step("GET /user/forgotten", 200, "", TRUE, "long"),
       Step("POST /login", 302, "", FALSE, "none"),
       Step("GET /user/forgotten", 200, "", TRUE, "long") >>

\* 011-get-forgotten-password: "should respond with 200 OK", then "should
\* not load when logged-in".
ForgottenTest ==
    << Step("GET /user/forgotten", 200, "", TRUE, "long"),
       Step("POST /login", 302, "", FALSE, "none"),
       Step("GET /user/forgotten", 302, "/home", FALSE, "long") >>

\* The expectations of a step hold of the answer; kept is not_logged_in.
Passes(step, answer, kept) ==
    /\ answer.status = step.status
    /\ step.location # "" => answer.location = step.location
    /\ step.html => answer.type = "text/html"
    /\ step.text = "long" => Len(answer.text) > 1
    /\ step.text = "differs" => answer.text # kept
    /\ step.text = "equals" => answer.text = kept

\* The exchange the session records.
Exchange(request, answer) ==
    [request |-> request, status |-> answer.status, location |-> answer.location,
     type |-> answer.type, text |-> answer.text]

\* The session makes a request outside the tests.
Request(request) ==
    /\ test \in {"none", "free"}
    /\ Len(history) < MaxRequests
    /\ LET answer == Serve(session, request)
       IN  /\ history' = Append(history, Exchange(request, answer))
           /\ session' = answer.user
    /\ test' = "free"
    /\ UNCHANGED <<failed, saved>>
    /\ UNCHANGED <<socketVars, queryVars, pgVars>>

\* The test `name` makes the next request of its steps and checks the
\* answer; a failed expectation ends the test.
TestStep(name, steps) ==
    /\ test \in {"none", name}
    /\ ~failed
    /\ Len(history) < Len(steps)
    /\ LET step == steps[Len(history) + 1]
           answer == Serve(session, step.request)
       IN  /\ history' = Append(history, Exchange(step.request, answer))
           /\ session' = answer.user
           /\ failed' = ~Passes(step, answer, saved)
           /\ saved' = IF step.text = "save" THEN answer.text ELSE saved
    /\ test' = name
    /\ UNCHANGED <<socketVars, queryVars, pgVars>>

HomepageTestStep == TestStep("homepage", HomepageTest)
ForgottenTestStep == TestStep("forgotten", ForgottenTest)

(***************************************************************************)
(* lib/datastore/postgres.js: clientQuery.  A text is a sequence of        *)
(* fragments, as for the URIs.                                             *)
(***************************************************************************)
\* A property of an error object that holds a string, or is undefined.
Text(fragments) == [defined |-> TRUE, text |-> fragments]
UndefinedText == [defined |-> FALSE, text |-> <<>>]

\* The err argument of the completion of client.query: an error with its
\* message, file and routine, or null.
PgError(message, file, routine) ==
    [set |-> TRUE, message |-> message, file |-> file, routine |-> routine]
NoPgError ==
    [set |-> FALSE, message |-> UndefinedText, file |-> UndefinedText,
     routine |-> UndefinedText]

\* The errors of the PostgreSQL server, which carry the source file and the
\* routine that raised them.
ServerErrors ==
    {PgError(Text(m), Text(f), Text(r)) :
        m \in {<<"cache", "d plan must not change result type">>,
               <<"duplicate key value violates unique constraint">>},
        f \in {<<"plan", "cache", ".c">>, <<"nbtinsert.c">>},
        r \in {<<"Revalidate", "Cache", "dQuery">>, <<"_bt_check_unique">>}}

\* The errors the client raises itself, which carry a message only.
ClientErrors ==
    {PgError(Text(m), UndefinedText, UndefinedText) :
        m \in {<<"Connection terminated">>,
               <<"cache", " lookup failed for type 0">>}}

PgErrors == ServerErrors \cup ClientErrors

\* The results of a query that succeeded: its rows.
PgResults == {<<>>, <<"row">>}

\* The upper and lower case forms of the fragment the pattern looks for.
toLowerCase(fragment) ==
    IF fragment \in {"cache", "Cache", "CACHE"} THEN "cache" ELSE fragment

\* text.match(/cache/i) at fragment granularity, for a text that is defined.
matchCache(text) ==
    \E i \in 1..Len(text.text) : toLowerCase(text.text[i]) = "cache"

\* What the completion callback clientQuery gives to client.query does with
\* err: the || chain evaluates err.message.match, err.file.match and
\* err.routine.match in turn, and .match on an undefined property throws a
\* TypeError.
clientQueryEnd(err) ==
    IF ~err.set THEN "callback"
    ELSE IF matchCache(err.message) THEN "terminate"
    ELSE IF ~err.file.defined THEN "throw"
    ELSE IF matchCache(err.file) THEN "terminate"
    ELSE IF ~err.routine.defined THEN "throw"
    ELSE IF matchCache(err.routine) THEN "terminate"
    ELSE "callback"

\* What becomes of an exception thrown out of the completion callback: it is
\* uncaught and ends the process, or the database client drops it.
PgThrowOutcomes == {"uncaught", "swallowed"}

\* A clientQuery call: `cbErr` and `cbResult` are the arguments of the
\* caller's callback.
NewQuery(write, name) ==
    [write |-> write, name |-> name, pc |-> "sent", err |-> NoPgError,
     result |-> <<>>, cbErr |-> NoPgError, cbResult |-> <<>>, cbCount |-> 0]

\* clientQuery(client, write, args, callback): client.query is called.
ClientQuery(write, name) ==
    /\ Running
    /\ Len(queries) < MaxQueries
    /\ queries' = Append(queries, NewQuery(write, name))
    /\ UNCHANGED pgStats
    /\ UNCHANGED <<socketVars, queryVars, httpVars>>

\* terminateDueToError(reason): the failure is counted in 'postgres.failure'
\* and the process exits; counted are the counters so far.
terminateDueToError(counted) ==
    /\ pgStats' = [counted EXCEPT !.failure = @ + 1]
    /\ process' = "exit1"

\* client.query of call q completes with (err, result): a failure is counted
\* in 'postgres.<key>.<name>.failure', a 'cache' error terminates, and
\* otherwise callback(err, result) runs.
QueryCompletes(q, err, result, thrown) ==
    /\ Running
    /\ q \in 1..Len(queries)
    /\ queries[q].pc = "sent"
    /\ LET done == [queries[q] EXCEPT !.err = err, !.result = result]
           end == clientQueryEnd(err)
       IN  CASE end = "terminate" ->
                  /\ terminateDueToError([pgStats EXCEPT !.queryFailure = @ + 1])
                  /\ queries' = [queries EXCEPT ![q] = [done EXCEPT !.pc = "exited"]]
             [] end = "throw" ->
                  /\ pgStats' = [pgStats EXCEPT !.queryFailure = @ + 1]
                  /\ process' = IF thrown = "uncaught" THEN "uncaught" ELSE process
                  /\ queries' = [queries EXCEPT ![q] = [done EXCEPT !.pc = "thrown"]]
             [] OTHER ->
                  /\ pgStats' = [pgStats EXCEPT !.queryFailure =
                                    @ + (IF err.set THEN 1 ELSE 0)]
                  /\ queries' = [queries EXCEPT ![q] =
                                    [done EXCEPT !.pc = "done", !.cbErr = err,
                                                 !.cbResult = result,
                                                 !.cbCount = @ + 1]]
                  /\ UNCHANGED process
    /\ UNCHANGED <<localConfig, opentsdb, sockets, calls, stats, connectCalled,
                   appCallback, store>>
    /\ UNCHANGED <<queryVars, httpVars>>

\* The completions client.query can report: an error without a result, or a
\* result without an error.
PgCompletions ==
    {<<e, <<>>>> : e \in PgErrors} \cup {<<NoPgError, r>> : r \in PgResults}

(***************************************************************************)
(* The specifications.                                                     *)
(***************************************************************************)
Next ==
    \/ Connect
    \/ \E m \in Metrics : AddTimeSeries(m)
    \/ \E s \in SocketIds : ConnectionEstablished(s)
    \/ \E s \in SocketIds : ConnectionError(s)
    \/ \E s \in SocketIds, flush \in BOOLEAN : SocketError(s, flush)
    \/ \E s \in SocketIds : WriteComplete(s)
    \/ \E s \in SocketIds, flush \in BOOLEAN : WriteError(s, flush)
    \/ \E s \in SocketIds : SocketEnd(s)
    \/ \E s \in SocketIds, flush \in BOOLEAN : SocketClose(s, flush)

Spec == Init /\ [][Next]_vars

\* The state once the application's connect has succeeded.
InitQuery ==
    /\ localConfig = "set"
    /\ opentsdb = 1
    /\ sockets = <<[state |-> "open", owner |-> 0, established |-> TRUE,
                    pending |-> <<>>]>>
    /\ calls = <<>>
    /\ process = "running"
    /\ stats = [failure |-> 0, delayed |-> 0]
    /\ connectCalled = TRUE
    /\ appCallback = 1
    /\ store = {}
    /\ qpc = "idle"
    /\ qop = "none"
    /\ qgiven = NoFilter
    /\ qfilter = NoFilter
    /\ quri = <<>>
    /\ qresp = NoResponse
    /\ qcb = NoCallback
    /\ qcbCount = 0
    /\ httpGets = 0
    /\ session = "anonymous"
    /\ history = <<>>
    /\ test = "none"
    /\ failed = FALSE
    /\ saved = ""
    /\ queries = <<>>
    /\ pgStats = [failure |-> 0, queryFailure |-> 0]

NextQuery ==
    \/ \E f \in UntaggedFilters \cap QueryFilters : GetTimeSeriesRange(f)
    \/ GetLatestTimeSeries("power", Tags(<<>>))
    \/ \E f \in UntaggedFilters : GetTimeSeriesRangeList(f, GroupTag)
    \/ RenameTagValue("hpc1", "hpc2")
    \/ \E r \in RangeResponses : RangeResponse(r)
    \/ \E r \in LatestResponses : LatestResponse(r)
    \/ \E r \in RangeResponses, thrown \in ThrowOutcomes : ListResponse(r, thrown)
    \/ \E r \in RenameResponses : RenameResponse(r)

SpecQuery == InitQuery /\ [][NextQuery]_vars

NextUri ==
    \/ \E f \in QueryFilters : GetTimeSeriesRange(f)
    \/ \E t \in TagObjects : GetLatestTimeSeries("power", t)
    \/ \E f \in ListFilters : GetTimeSeriesRangeList(f, GroupTag)
    \/ \E old, new \in {"hpc1", "hpc2"} : RenameTagValue(old, new)
    \/ \E r \in FewResponses : RangeResponse(r)
    \/ \E r \in FewResponses : LatestResponse(r)
    \/ \E r \in FewResponses, thrown \in ThrowOutcomes : ListResponse(r, thrown)
    \/ \E r \in FewResponses : RenameResponse(r)

SpecUri == InitQuery /\ [][NextUri]_vars

NextHttp ==
    \/ \E request \in Requests : Request(request)
    \/ HomepageTestStep
    \/ ForgottenTestStep

SpecHttp == Init /\ [][NextHttp]_vars

NextPg ==
    \/ \E write \in BOOLEAN : ClientQuery(write, "select_metric")
    \/ \E q \in 1..Len(queries), c \in PgCompletions, thrown \in PgThrowOutcomes :
           QueryCompletes(q, c[1], c[2], thrown)

SpecPg == Init /\ [][NextPg]_vars


(***************************************************************************)
(* The properties.                                                         *)
(***************************************************************************)
Connecting == {s \in SocketIds : sockets[s].state = "connecting"}
Open == {s \in SocketIds : sockets[s].state = "open"}

\* C1: addTimeSeries calls made while the shared connection is absent or not
\* writable start one connect attempt in total, not one per call: at most
\* one of the reconnects they start is in progress at any time.
C1_OneReconnectInProgress ==
    Cardinality({s \in Connecting : sockets[s].owner # 0}) <= 1

\* The range query of getTimeSeriesRange has completed with a successful
\* response that holds exactly one series.
RangeDoneOneSeries ==
    /\ qpc = "done"
    /\ qop = "range"
    /\ ~IsFailure(qresp)
    /\ qresp.body.kind = "list"
    /\ Len(qresp.body.series) = 1

\* C2: for every point map dps, responseToLines returns one point per key,
\* the timestamps parsed to integers and ascending by numeric timestamp,
\* also when the keys differ in width.
C2_AscendingByNumber ==
    RangeDoneOneSeries =>
        LET dps == qresp.body.series[1].dps
            points == qcb.result
        IN  /\ Len(points) = Cardinality(DOMAIN dps)
            /\ \A k \in DOMAIN dps : \E i \in 1..Len(points) :
                   points[i] = [timestamp |-> parseInt(k), value |-> dps[k]]
            /\ \A i, j \in 1..Len(points) :
                   i < j => points[i].timestamp < points[j].timestamp

\* C3: getLatestTimeSeries applies queryRange's error-normalisation policy:
\* it reports no error exactly when queryRange would for the same response,
\* and every 400 gives a callback with neither error nor result.
C3_SamePolicyAsQueryRange ==
    (qpc = "done" /\ qop = "latest") =>
        /\ (qcb.err = "null") <=> (queryRangeEnd(qresp).err = "null")
        /\ (qresp.hasRes /\ qresp.status = 400) => (qcb.err = "null" /\ ~qcb.hasResult)

\* The body's error message contains 'No such name for '.
MessageNamesNoSuchName(body) ==
    /\ body.kind = "error"
    /\ body.hasMessage
    /\ \E i \in 1..Len(body.message) : body.message[i] = NoSuchName

\* The two classes of answers that stand for "no such series".
NoSuchSeriesAnswer(r) ==
    /\ r.hasRes
    /\ \/ r.status = 400
       \/ r.status = 500 /\ MessageNamesNoSuchName(r.body)

\* C4: a range query answered with HTTP 400 (any body) or with HTTP 500 and a
\* 'No such name for ' message gives an empty sequence and a null error, from
\* queryRange and from getTimeSeriesRange.
C4_NoSuchSeriesIsEmpty ==
    (qpc = "done" /\ qop = "range" /\ NoSuchSeriesAnswer(qresp)) =>
        /\ queryRangeEnd(qresp) = RangeCallback("null", TRUE, EmptyList)
        /\ qcb = PointsCallback("null", TRUE, <<>>)

C4_Witness ==
    /\ qpc = "done"
    /\ qop = "range"
    /\ qresp.status = 500
    /\ MessageNamesNoSuchName(qresp.body)
    /\ qcb = PointsCallback("null", TRUE, <<>>)

\* C5: every other failure of queryRange (no response, a status of 4xx or 5xx
\* other than 400, a 500 without the message) reaches the caller as a
\* TsdbError carrying the underlying error or message, never as an empty
\* successful result.
C5_OtherFailuresAreErrors ==
    (qpc = "done" /\ qop = "range"
        /\ (qresp.err # "null" \/ (qresp.hasRes /\ qresp.status >= 400))
        /\ ~NoSuchSeriesAnswer(qresp)) =>
        LET cause == IF qresp.err # "null" THEN qresp.err
                     ELSE "cannot GET (" \o ToString(qresp.status) \o ")"
        IN  /\ queryRangeEnd(qresp) = RangeCallback(cause, FALSE, NoBody)
            /\ qcb.err = cause
            /\ qcb.err # "null"

C5_Witness ==
    /\ qpc = "done"
    /\ qop = "range"
    /\ qresp.err = "null"
    /\ qresp.status = 500
    /\ ~MessageNamesNoSuchName(qresp.body)
    /\ qcb.err = "cannot GET (500)"

\* The filter covers the metric's point: same metric, start <= t <= end.
Covers(f, metric) ==
    /\ f.metric = metric.series
    /\ f.start <= metric.timestamp * 1000
    /\ metric.timestamp * 1000 <= f.end

HasPoint(points, metric) ==
    \E i \in 1..Len(points) :
        points[i] = [timestamp |-> metric.timestamp, value |-> metric.value]

\* C6: after a successful addTimeSeries of (series, t, v), a getTimeSeriesRange
\* on that series with start <= t <= end gets a sequence that holds a point
\* with timestamp t and value v.
C6_RoundTrip ==
    \A c \in CallIds : calls[c].cb = "null" =>
        \A f \in RangeFilters, e \in HttpErrs : Covers(f, calls[c].metric) =>
            /\ getTimeSeriesRange(f, e).err = "null"
            /\ HasPoint(getTimeSeriesRange(f, e).result, calls[c].metric)

C6_Witness ==
    \E c, d \in CallIds, f \in RangeFilters :
        /\ calls[c].cb = "null"
        /\ calls[d].cb = "null"
        /\ calls[c].metric.timestamp < calls[d].metric.timestamp
        /\ Covers(f, calls[c].metric)
        /\ Covers(f, calls[d].metric)
        /\ Len(getTimeSeriesRange(f, "null").result) = 2

\* The reconnect of call c failed: its socket emitted 'error' before it was
\* established.
ReconnectFailed(c) ==
    calls[c].opened # 0 /\ sockets[calls[c].opened].state = "failed"

IsError(cb) == cb # "none" /\ cb # "null"

\* C7: if addTimeSeries has to reconnect and the reconnect fails, or the
\* write on the new connection fails, the caller's callback is invoked with a
\* non-null error.
C7_ErrorReachesCaller ==
    \A c \in CallIds :
        /\ ReconnectFailed(c) => IsError(calls[c].cb)
        /\ (calls[c].opened # 0 /\ calls[c].writeFailed) => IsError(calls[c].cb)

\* C7 as amended: if the reconnect fails the process exits with code 1 and
\* the caller's callback is never invoked; if the write on the new connection
\* completes with an error the caller's callback is invoked, once, with it.
C7_ExitOrErrorToCaller ==
    \A c \in CallIds :
        /\ ReconnectFailed(c) =>
               (process = "exit1" /\ calls[c].cb = "none" /\ calls[c].cbCount = 0)
        /\ (calls[c].opened # 0 /\ calls[c].writeFailed) =>
               (IsError(calls[c].cb) /\ calls[c].cbCount = 1)

C7_Witness ==
    \E c, d \in CallIds :
        /\ calls[c].opened # 0
        /\ calls[c].writeFailed
        /\ IsError(calls[c].cb)
        /\ calls[d].opened # 0
        /\ sockets[calls[d].opened].state = "failed"
        /\ process = "exit1"

\* C8: a call made while the shared connection is absent or not writable
\* writes no put line until the connection it opens is established, and then
\* writes it on that connection; a call made while the shared connection is
\* present and writable writes on it and opens no connection.
C8_WriteOnlyWhenConnected ==
    [][\A c \in 1..Len(calls') :
          LET new == c > Len(calls)
              down == opentsdb = 0 \/ sockets[opentsdb].state # "open"
              wrote == /\ calls'[c].socket # 0
                       /\ (new \/ calls[c].socket = 0)
          IN  /\ (new /\ down) =>
                    /\ ~wrote
                    /\ \A s \in 1..Len(sockets') : ~InSeq(c, sockets'[s].pending)
              /\ (new /\ ~down) =>
                    /\ wrote
                    /\ calls'[c].socket = opentsdb
                    /\ InSeq(c, sockets'[opentsdb].pending)
                    /\ calls'[c].opened = 0
                    /\ Len(sockets') = Len(sockets)
              /\ (~new /\ wrote) =>
                    /\ calls[c].opened # 0
                    /\ calls'[c].socket = calls[c].opened
                    /\ sockets[calls[c].opened].state = "connecting"
                    /\ sockets'[calls[c].opened].state = "open"
                    /\ InSeq(c, sockets'[calls[c].opened].pending)
      ]_vars

C8_Witness ==
    \E c, d \in CallIds :
        /\ calls[c].opened # 0
        /\ calls[c].socket = calls[c].opened
        /\ calls[d].opened = 0
        /\ calls[d].socket # 0

\* C9: there is a single logical connection: at most one socket opened by
\* connect is open at any time.
C9_SingleConnection == Cardinality(Open) <= 1

\* C10: a connection attempt that fails ends the process with exit code 1,
\* without a retry and without the connect callback; once a connection is
\* established a socket error no longer ends the process.
C10_OnlyConnectFailureIsFatal ==
    /\ \A s \in SocketIds : sockets[s].state = "failed" =>
           /\ process = "exit1"
           /\ IF sockets[s].owner = 0 THEN appCallback = 0
              ELSE calls[sockets[s].owner].cbCount = 0 /\ calls[sockets[s].owner].opened = s
    /\ process # "running" =>
           \/ \E s \in SocketIds : sockets[s].state = "failed"
           \/ \E c \in CallIds : calls[c].pc = "called"

\* C11: when write returns false (the socket already buffers HighWaterMark
\* lines) the call is counted in 'opentsdb.write.delayed' and the caller's
\* callback is not invoked by addTimeSeries; the callback of a delayed call is
\* invoked only in a step in which the transport takes the write off the
\* socket's queue, and without an error when the line was written out.
C11_BackpressureNotSurfaced ==
    [][\A c \in 1..Len(calls') :
          LET new == c > Len(calls)
              handed == calls'[c].socket # 0 /\ (new \/ calls[c].socket = 0)
              full == Len(sockets[calls'[c].socket].pending) >= HighWaterMark
              wasDelayed == ~new /\ calls[c].delayed
          IN  /\ handed =>
                    /\ calls'[c].delayed = full
                    /\ calls'[c].cbCount = 0
                    /\ calls'[c].cb = "none"
                    /\ stats'.delayed = stats.delayed + (IF full THEN 1 ELSE 0)
              /\ (~new /\ ~handed) => calls'[c].delayed = calls[c].delayed
              /\ (wasDelayed /\ calls'[c].cbCount # calls[c].cbCount) =>
                    /\ calls[c].cbCount = 0
                    /\ calls'[c].cbCount = 1
                    /\ InSeq(c, sockets[calls[c].socket].pending)
                    /\ ~InSeq(c, sockets'[calls[c].socket].pending)
                    /\ (store' # store) => calls'[c].cb = "null"
      ]_vars

C11_Witness ==
    \E c \in CallIds :
        /\ calls[c].delayed
        /\ stats.delayed >= 1
        /\ calls[c].pc = "done"
        /\ calls[c].cb = "null"
        /\ calls[c].cbCount = 1

\* How often call c is queued on the sockets.
Queued(c) ==
    Cardinality({q \in UNION {{<<s, i>> : i \in 1..Len(sockets[s].pending)} :
                                 s \in SocketIds} :
                    sockets[q[1]].pending[q[2]] = c})

\* The point of a metric.
PointOf(m) == [series |-> m.series, timestamp |-> m.timestamp, value |-> m.value]

\* C17: a call that reaches the socket hands write exactly one put line, the
\* line of its own metric, and is queued at most once; a call that has not
\* reached the socket has written nothing; every point in the store is the
\* point of one call whose write completed.
C17_OnePutLinePerCall ==
    /\ \A c \in CallIds :
           LET m == calls[c].metric
           IN  /\ calls[c].socket = 0 => (calls[c].data = <<>> /\ Queued(c) = 0)
               /\ calls[c].socket # 0 =>
                      /\ calls[c].data =
                             <<[series |-> m.series,
                                timestamp |-> NumberToString(m.timestamp),
                                value |-> m.value]>>
                      /\ Queued(c) <= 1
                      /\ (Queued(c) = 1) <=> (calls[c].pc = "writing")
                      /\ (Queued(c) = 1) =>
                             InSeq(c, sockets[calls[c].socket].pending)
    /\ \A p \in store : \E c \in CallIds :
           /\ calls[c].pc = "done"
           /\ calls[c].cb = "null"
           /\ p = PointOf(calls[c].metric)
    /\ Cardinality(store) <= Cardinality({c \in CallIds : calls[c].cb = "null"})

C17_Witness ==
    \E c, d \in CallIds :
        /\ calls[c].opened # 0
        /\ calls[c].pc = "done"
        /\ calls[d].delayed
        /\ calls[d].pc = "done"
        /\ calls[c].metric # calls[d].metric
        /\ store = {PointOf(calls[c].metric), PointOf(calls[d].metric)}

\* getLatestTimeSeries has completed with a successful response whose body
\* is a list with a first element.
LatestDoneWithPoint ==
    /\ qpc = "done"
    /\ qop = "latest"
    /\ ~IsFailure(qresp)
    /\ qresp.body.kind = "list"
    /\ Len(qresp.body.series) >= 1

\* C12: on a successful response whose first element has millisecond
\* timestamp T and value v, getLatestTimeSeries calls back with a point whose
\* timestamp is a Number and whose value is v; for T a whole number of
\* seconds the timestamp is the number T / 1000 (1700000000000 gives the
\* number 1700000000).
C12_SecondsAsNumber ==
    LatestDoneWithPoint =>
        LET first == qresp.body.series[1]
        IN  /\ qcb.err = "null"
            /\ qcb.hasResult
            /\ qcb.result[1].value = first.value
            /\ qcb.result[1].timestamp.type = "number"
            /\ first.timestamp.millis = 0 =>
                   qcb.result[1].timestamp = JsNumber(first.timestamp.seconds)

\* The fragments a, b, c follow one another somewhere in the text.
Contains3(text, a, b, c) ==
    \E i \in 1..(Len(text) - 2) :
        text[i] = a /\ text[i + 1] = b /\ text[i + 2] = c

\* The values the object holds under the name as own string properties.
OwnStrings(obj, field) ==
    {obj.props[i].value : i \in {j \in 1..Len(obj.props) :
                                    /\ obj.props[j].field = field
                                    /\ obj.props[j].own
                                    /\ obj.props[j].type = "string"}}

\* C13: when the filter given to getTimeSeriesRangeList has no tags, or tags
\* without the group tag, the filter's tags hold group = '*' when the query is
\* built and the URI of the GET contains group=*; when the filter holds a
\* non-empty string for the group tag, the tags are left as given and the
\* URI contains group=<that value> and no wildcard.
C13_GroupTagWildcard ==
    (qop = "list" /\ qpc # "idle") =>
        LET given == qgiven.tags
            absent == \/ ~given.defined
                      \/ \A i \in 1..Len(given.props) :
                             given.props[i].field # GroupTag
            valued == given.defined /\ OwnStrings(given, GroupTag) \ {""} # {}
        IN  /\ absent =>
                   /\ qfilter.tags.defined
                   /\ OwnStrings(qfilter.tags, GroupTag) = {"*"}
                   /\ Contains3(quri, GroupTag, "=", "*")
            /\ valued =>
                   /\ qfilter.tags = given
                   /\ \A v \in OwnStrings(given, GroupTag) :
                          Contains3(quri, GroupTag, "=", v)
                   /\ ~Contains3(quri, GroupTag, "=", "*")

C13_Witness ==
    /\ qop = "list"
    /\ qpc = "sent"
    /\ ~qgiven.tags.defined
    /\ qfilter.tags = Tags(<<Prop(GroupTag, "*", "string", TRUE)>>)
    /\ Contains3(quri, GroupTag, "=", "*")

\* The points are those of the point map: one per key, timestamp parsed.
SamePoints(points, dps) ==
    /\ Len(points) = Cardinality(DOMAIN dps)
    /\ \A k \in DOMAIN dps : \E j \in 1..Len(points) :
           points[j] = [timestamp |-> parseInt(k), value |-> dps[k]]

\* C14: getTimeSeriesRangeList issues one GET; answered with a list of
\* sub-series it calls back once, without error, with a mapping whose keys
\* are exactly the group-tag values of the sub-series, each mapped to the
\* points of a sub-series of that value; answered with a failure that is not
\* normalised it calls back once with the error and an empty mapping.
C14_OneQuerySplitByGroup ==
    (qop = "list" /\ qpc = "done") =>
        /\ httpGets = 1
        /\ (~IsFailure(qresp) /\ qresp.body.kind = "list") =>
               LET series == qresp.body.series
               IN  /\ qcbCount = 1
                   /\ qcb.err = "null"
                   /\ DOMAIN qcb.result = {series[i].tags : i \in 1..Len(series)}
                   /\ \A v \in DOMAIN qcb.result : \E i \in 1..Len(series) :
                          /\ series[i].tags = v
                          /\ SamePoints(qcb.result[v], series[i].dps)
        /\ (IsFailure(qresp) /\ ~NoSuchSeriesAnswer(qresp)) =>
               /\ qcbCount = 1
               /\ qcb.err # "null"
               /\ qcb.err = (IF qresp.err # "null" THEN qresp.err
                             ELSE "cannot GET (" \o ToString(qresp.status) \o ")")
               /\ DOMAIN qcb.result = {}

C14_Witness ==
    /\ qop = "list"
    /\ qpc = "done"
    /\ qresp.body.kind = "list"
    /\ Len(qresp.body.series) = 2
    /\ qcb.err = "null"
    /\ DOMAIN qcb.result = {"a", "b"}
    /\ Len(qcb.result["a"]) = 2
    /\ Len(qcb.result["b"]) = 1

\* C15: once the request of a query has completed, the caller's callback has
\* been invoked exactly once, whatever the response; it is never invoked
\* twice.
C15_CallbackExactlyOnce ==
    /\ qcbCount <= 1
    /\ (qpc = "done") => (qcbCount = 1)

\* C16: a query issues exactly one GET, whatever the response to it.
C16_OneGetPerQuery ==
    /\ (qpc = "idle") => (httpGets = 0)
    /\ (qpc \in {"sent", "done"}) => (httpGets = 1 /\ Len(quri) > 0)
    /\ (qcbCount > 0) => (qpc = "done")

C16_Witness ==
    /\ qpc = "done"
    /\ qop = "rename"
    /\ qresp.status = 503
    /\ qcb.err # "null"
    /\ httpGets = 1

\* The items with the separator between them.
Separated(items, separator) ==
    [i \in 1..(2 * Len(items) - 1) |->
        IF i % 2 = 1 THEN items[(i + 1) \div 2] ELSE separator]

\* key=value of each property, a comma between them.
KeyValues(props) ==
    [i \in 1..(4 * Len(props) - 1) |->
        LET p == props[(i - 1) \div 4 + 1]
        IN  CASE (i - 1) % 4 = 0 -> p.field
              [] (i - 1) % 4 = 1 -> "="
              [] (i - 1) % 4 = 2 -> p.value
              [] OTHER -> ","]

\* C18: the URI queryRange sends has start = the whole seconds of the start
\* moment and end = the whole seconds of the end moment (floor and ceil of a
\* whole number of seconds), and the expression aggregation, the qualifiers
\* in order (none when absent or empty) and the metric, joined by ':',
\* followed, when the tags object has a property, by '{' k=v of its
\* string-valued own properties, comma separated, '}'.
C18_QueryExpression ==
    (qop \in {"range", "list"} /\ qpc # "idle") =>
        LET f == qfilter
            qualifiers == IF f.qualifiers.defined THEN f.qualifiers.items ELSE <<>>
            own == SelectSeq(f.tags.props, LAMBDA p : p.own)
            sent == SelectSeq(f.tags.props, LAMBDA p : p.own /\ p.type = "string")
        IN  quri = <<"http://", "opentsdb:host", ":", "opentsdb:port",
                     "/api/query?start=", ToString(f.start \div 1000),
                     "&end=", ToString(f.end \div 1000), "&m=">>
                   \o Separated(<<f.aggregation>> \o qualifiers \o <<f.metric>>, ":")
                   \o (IF Len(own) = 0 THEN <<>>
                       ELSE <<"{">> \o KeyValues(sent) \o <<"}">>)

C18_Witness ==
    /\ qop = "range"
    /\ qpc = "sent"
    /\ qgiven.qualifiers = Qualifiers(<<"1h-avg", "rate">>)
    /\ quri = <<"http://", "opentsdb:host", ":", "opentsdb:port",
                "/api/query?start=", "0", "&end=", "200", "&m=",
                "max", ":", "1h-avg", ":", "rate", ":", "power",
                "{", "hpc", "=", "a", "}">>

\* The session is logged in when it makes its i-th request: it has posted
\* the login form and has not posted a logout since.
LoggedInAt(i) ==
    \E j \in 1..(i - 1) :
        /\ history[j].request = "POST /login"
        /\ \A k \in (j + 1)..(i - 1) : history[k].request # "POST /logout"

C21_ErrorOnOldSocketSparesCurrent ==
    [][\A s \in SocketIds :
          ( /\ sockets[s].established
            /\ Live(s)
            /\ opentsdb # 0
            /\ opentsdb # s
            /\ Live(opentsdb)
            /\ sockets'[s].state = "destroyed" ) =>
              /\ opentsdb' = opentsdb
              /\ sockets'[opentsdb].state = sockets[opentsdb].state
      ]_vars

\* C22: the 'error' listener installed by connectionEstablished never runs
\* with the shared connection undefined: no step in which an established
\* socket is torn down by an error throws out of the listener.
C22_ListenerTargetDefined ==
    [][~ ( /\ opentsdb = 0
           /\ process = "running"
           /\ process' = "uncaught"
           /\ \E s \in SocketIds :
                  /\ sockets[s].established
                  /\ Live(s)
                  /\ sockets'[s].state = "destroyed" )
      ]_vars

\* The range query has completed with a failure: no answer, an answer that
\* could not be parsed, or a status of 4xx or 5xx.
RangeFailed ==
    qresp.err # "null" \/ (qresp.hasRes /\ qresp.status >= 400)

\* C23: getTimeSeriesRange hands on the converted points only when the answer
\* holds exactly one series; a successful answer with no series, or with two
\* or more, gives a null error and an empty array, and a failed query gives
\* the error together with an empty array.
C23_PointsOnlyForOneSeries ==
    (qpc = "done" /\ qop = "range") =>
        LET one == /\ ~RangeFailed
                   /\ qresp.body.kind = "list"
                   /\ Len(qresp.body.series) = 1
        IN  /\ qcb.hasResult
            /\ one => /\ qcb.err = "null"
                      /\ SamePoints(qcb.result, qresp.body.series[1].dps)
            /\ (~RangeFailed /\ ~one) => qcb = PointsCallback("null", TRUE, <<>>)
            /\ RangeFailed => qcb.result = <<>>
            /\ (RangeFailed /\ ~NoSuchSeriesAnswer(qresp)) => qcb.err # "null"

C23_Witness ==
    /\ qpc = "done"
    /\ qop = "range"
    /\ ~RangeFailed
    /\ qresp.body.kind = "list"
    /\ Len(qresp.body.series) = 2
    /\ \A i \in 1..2 : DOMAIN qresp.body.series[i].dps # {}
    /\ qcb = PointsCallback("null", TRUE, <<>>)

\* The query was answered with a success (no err, no res.error) whose
\* res.body is falsy.
SuccessWithoutBody ==
    /\ qpc = "done"
    /\ qresp.err = "null"
    /\ qresp.hasRes
    /\ ~qresp.errorSet
    /\ qresp.body.kind = "none"

\* The query was answered with a success whose body is the empty list.
SuccessWithEmptyList ==
    /\ qpc = "done"
    /\ qresp.err = "null"
    /\ qresp.hasRes
    /\ ~qresp.errorSet
    /\ qresp.body.kind = "list"
    /\ Len(qresp.body.series) = 0

\* C24: a successful response without data is an empty result and not an
\* error: on a 2xx answer without a body queryRange calls back (null, []),
\* which getTimeSeriesRange hands on as (null, []); on a 2xx answer without a
\* body or with an empty list getLatestTimeSeries calls back with neither an
\* error nor a result.
C24_NoDataIsEmptyResult ==
    /\ (SuccessWithoutBody /\ qop = "range") =>
           /\ queryRangeEnd(qresp) = RangeCallback("null", TRUE, EmptyList)
           /\ qcb = PointsCallback("null", TRUE, <<>>)
    /\ ((SuccessWithoutBody \/ SuccessWithEmptyList) /\ qop = "latest") =>
           /\ qcb.err = "null"
           /\ ~qcb.hasResult
           /\ qcbCount = 1

C24_Witness ==
    /\ SuccessWithoutBody
    /\ qop = "range"
    /\ qresp.status = 200
    /\ qcb = PointsCallback("null", TRUE, <<>>)
    /\ qcbCount = 1

\* The properties of a tags object other than the named one, in order.
OtherProps(tags, field) == SelectSeq(tags.props, LAMBDA p : p.field # field)

\* filter.tags[group] was absent (undefined) or the empty string.
AbsentOrEmpty(tags, field) ==
    \/ ~tags.defined
    \/ ~HasProperty(tags, field)
    \/ Falsy(GetProperty(tags, field))

\* C25: getTimeSeriesRangeList changes the caller's filter object in place
\* and only in the group tag: afterwards filter.tags exists; the group tag is
\* '*' if it was absent or empty before and is as given otherwise; every other
\* tag and every other field of the filter is as given; and a second call with
\* the same filter object changes nothing more and requests the same URI.
C25_OnlyGroupTagChanged ==
    (qop = "list" /\ qpc # "idle") =>
        /\ qfilter.tags.defined
        /\ HasProperty(qfilter.tags, GroupTag)
        /\ AbsentOrEmpty(qgiven.tags, GroupTag) =>
               GetProperty(qfilter.tags, GroupTag) = Prop(GroupTag, "*", "string", TRUE)
        /\ ~AbsentOrEmpty(qgiven.tags, GroupTag) => qfilter.tags = qgiven.tags
        /\ OtherProps(qfilter.tags, GroupTag) = OtherProps(qgiven.tags, GroupTag)
        /\ qfilter.metric = qgiven.metric
        /\ qfilter.start = qgiven.start
        /\ qfilter.end = qgiven.end
        /\ qfilter.aggregation = qgiven.aggregation
        /\ qfilter.qualifiers = qgiven.qualifiers
        /\ WithGroupTag(qfilter, GroupTag) = qfilter
        /\ queryRangeUri(WithGroupTag(qfilter, GroupTag)).text = quri

C25_Witness ==
    /\ qop = "list"
    /\ qpc = "done"
    /\ qgiven.tags = Tags(<<Prop("hpc", "", "string", TRUE),
                            Prop("site", "s1", "string", TRUE)>>)
    /\ qfilter.tags = Tags(<<Prop("hpc", "*", "string", TRUE),
                             Prop("site", "s1", "string", TRUE)>>)
    /\ qfilter.start = qgiven.start

\* C26: getLatestTimeSeries converts the millisecond timestamp to the nearest
\* whole second, a half rounding up, and does not truncate: 1500 ms gives
\* second 2 and 1499 ms second 1, so the second called back is the recorded
\* one for fewer than 500 ms and the following one from 500 ms on.
C26_NearestSecondHalfUp ==
    LatestDoneWithPoint =>
        LET ms == qresp.body.series[1].timestamp
            second == parseInt(qcb.result[1].timestamp.digits)
            later == second - ms.seconds
        IN  /\ later \in {0, 1}
            /\ 1000 * later - ms.millis <= 500
            /\ ms.millis - 1000 * later < 500
            /\ ms = Millis(1, 500) => second = 2
            /\ ms = Millis(1, 499) => second = 1

C26_Witness ==
    /\ LatestDoneWithPoint
    /\ qresp.body.series[1].timestamp = Millis(1, 500)
    /\ qcb.result[1].timestamp.digits = NumberToString(2)

\* The error's message, file or routine matches 'cache', whatever the case
\* of its letters; a property the error does not have matches nothing.
NamesCache(err) ==
    \E text \in {err.message, err.file, err.routine} :
        /\ text.defined
        /\ \E i \in 1..Len(text.text) : text.text[i] \in {"cache", "Cache", "CACHE"}

\* C27: clientQuery treats a query error as fatal exactly when its message,
\* file or routine matches 'cache': then the process is terminated; for every
\* other query error the callback is invoked exactly once with that error and
\* the process keeps running; on success the callback is invoked exactly once
\* with a null error and the result.
C27_OnlyCacheErrorsFatal ==
    /\ \A q \in 1..Len(queries) :
           LET query == queries[q]
           IN  query.pc # "sent" =>
                   /\ (query.err.set /\ NamesCache(query.err)) => process = "exit1"
                   /\ (query.err.set /\ ~NamesCache(query.err)) =>
                          /\ query.cbCount = 1
                          /\ query.cbErr = query.err
                   /\ ~query.err.set =>
                          /\ query.cbCount = 1
                          /\ query.cbErr = NoPgError
                          /\ query.cbResult = query.result
    /\ process # "running" =>
           \E q \in 1..Len(queries) :
               queries[q].pc # "sent" /\ queries[q].err.set /\ NamesCache(queries[q].err)

=============================================================================
